---- MODULE Spec2Model ----
(***************************************************************************)
(* AI-Interview-Coach: the AnswerEvaluationAgent of src/Agents/agent.py    *)
(* (construction, the retrying gateway, JSON extraction, the derived       *)
(* operations and their fallbacks) and the start-up of src/app.py.         *)
(*                                                                         *)
(* Texts are sequences of lexical tokens (a brace, a fence marker, a       *)
(* newline, a number literal, a string literal, a key with its colon, a    *)
(* prose word).  Waiting times are counted in ticks of 1/TicksPerSec s.    *)
(***************************************************************************)
EXTENDS Integers, Sequences, FiniteSets, TLC

\* ------------------------------------------------------------------ bounds
\* resolution of the clock: random.uniform(0, 1) is one of TicksPerSec values
TicksPerSec == 2
\* longest raw text the extractor is applied to in SpecExtract
MaxTextLen == 3
\* longest qa_pairs list / labels list handed to an operation
MaxArgLen == 2
\* how many times the results page is computed in one session
MaxEvaluations == 2

\* ------------------------------------------------------------------ tokens
Tok(k, s, n) == [k |-> k, s |-> s, n |-> n]
LB == Tok("{", "", 0)
RB == Tok("}", "", 0)
LBR == Tok("[", "", 0)
RBR == Tok("]", "", 0)
COMMA == Tok(",", "", 0)
NL == Tok("nl", "", 0)
FENCE == Tok("fence", "", 0)
NULLTOK == Tok("null", "", 0)
Key(s) == Tok("key", s, 0)
Num(n) == Tok("num", "", n)
Str(s) == Tok("str", s, 0)
Word(s) == Tok("word", s, 0)

\* ------------------------------------------------------------- JSON values
JNull == [t |-> "null"]
JNum(n) == [t |-> "num", n |-> n]
JStr(s) == [t |-> "str", s |-> s]
JList(items) == [t |-> "list", items |-> items]
\* a dict: its keys in insertion order, and the value of each
JObj(ks, m) == [t |-> "obj", ks |-> ks, m |-> m]
EmptyObj == JObj(<<>>, <<>>)

Range(f) == {f[x] : x \in DOMAIN f}

\* d[key] = v on a Python dict: a new key goes last, an old one keeps its place
DictSet(d, key, v) ==
    JObj(IF key \in Range(d.ks) THEN d.ks ELSE Append(d.ks, key),
         [x \in Range(d.ks) \cup {key} |-> IF x = key THEN v ELSE d.m[x]])

RECURSIVE DictOf(_)
\* the dict written as a literal with these <<key, value>> pairs
DictOf(pairs) ==
    IF pairs = <<>> THEN EmptyObj
    ELSE DictSet(DictOf(SubSeq(pairs, 1, Len(pairs) - 1)),
                 pairs[Len(pairs)][1], pairs[Len(pairs)][2])

IsDict(v) == v.t = "obj"
HasKey(d, key) == key \in Range(d.ks)

\* Python truth value of a JSON value
Truthy(v) ==
    CASE v.t = "null" -> FALSE
      [] v.t = "num" -> v.n # 0
      [] v.t = "str" -> v.s # ""
      [] v.t = "list" -> v.items # <<>>
      [] v.t = "obj" -> v.ks # <<>>
      [] OTHER -> TRUE

\* d.get(key): None when the key is absent
DictGet(d, key) == IF HasKey(d, key) THEN d.m[key] ELSE JNull

\* ------------------------------------------------------------- json.loads
RECURSIVE SkipWs(_, _)
SkipWs(t, i) == IF i <= Len(t) /\ t[i].k = "nl" THEN SkipWs(t, i + 1) ELSE i

ParseFail == [ok |-> FALSE, v |-> JNull, i |-> 0]
ParseOk(v, i) == [ok |-> TRUE, v |-> v, i |-> i]

RECURSIVE ParseValue(_, _)
RECURSIVE ParseMembers(_, _, _)
RECURSIVE ParseItems(_, _, _)

\* one JSON value starting at the first non-blank token at or after i0
ParseValue(t, i0) ==
    LET i == SkipWs(t, i0) IN
    IF i > Len(t) THEN ParseFail
    ELSE CASE t[i].k = "num" -> ParseOk(JNum(t[i].n), i + 1)
           [] t[i].k = "str" -> ParseOk(JStr(t[i].s), i + 1)
           [] t[i].k = "null" -> ParseOk(JNull, i + 1)
           [] t[i].k = "{" ->
                LET j == SkipWs(t, i + 1) IN
                IF j <= Len(t) /\ t[j].k = "}" THEN ParseOk(EmptyObj, j + 1)
                ELSE ParseMembers(t, j, EmptyObj)
           [] t[i].k = "[" ->
                LET j == SkipWs(t, i + 1) IN
                IF j <= Len(t) /\ t[j].k = "]" THEN ParseOk(JList(<<>>), j + 1)
                ELSE ParseItems(t, j, <<>>)
           [] OTHER -> ParseFail

\* "key": value pairs of an object, up to and including its closing brace
ParseMembers(t, i, d) ==
    IF i > Len(t) \/ t[i].k # "key" THEN ParseFail
    ELSE LET r == ParseValue(t, i + 1) IN
         IF ~r.ok THEN ParseFail
         ELSE LET j == SkipWs(t, r.i)
                  d2 == DictSet(d, t[i].s, r.v)
              IN IF j > Len(t) THEN ParseFail
                 ELSE IF t[j].k = "}" THEN ParseOk(d2, j + 1)
                 ELSE IF t[j].k = "," THEN ParseMembers(t, SkipWs(t, j + 1), d2)
                 ELSE ParseFail

\* the items of a list, up to and including its closing bracket
ParseItems(t, i, items) ==
    LET r == ParseValue(t, i) IN
    IF ~r.ok THEN ParseFail
    ELSE LET j == SkipWs(t, r.i)
             items2 == Append(items, r.v)
         IN IF j > Len(t) THEN ParseFail
            ELSE IF t[j].k = "]" THEN ParseOk(JList(items2), j + 1)
            ELSE IF t[j].k = "," THEN ParseItems(t, j + 1, items2)
            ELSE ParseFail

\* json.loads: one value and nothing but blanks after it, else JSONDecodeError
JsonLoads(t) ==
    LET r == ParseValue(t, 1) IN
    IF r.ok /\ SkipWs(t, r.i) > Len(t) THEN [ok |-> TRUE, v |-> r.v]
    ELSE [ok |-> FALSE, v |-> JNull]

\* ------------------------------------------------------------- json.dumps
RECURSIVE JsonDumps(_)
RECURSIVE DumpItems(_)
RECURSIVE DumpMembers(_, _)

DumpItems(items) ==
    IF items = <<>> THEN <<>>
    ELSE JsonDumps(items[1])
         \o (IF Len(items) > 1 THEN <<COMMA>> ELSE <<>>)
         \o DumpItems(Tail(items))

DumpMembers(ks, m) ==
    IF ks = <<>> THEN <<>>
    ELSE <<Key(ks[1])>> \o JsonDumps(m[ks[1]])
         \o (IF Len(ks) > 1 THEN <<COMMA>> ELSE <<>>)
         \o DumpMembers(Tail(ks), m)

JsonDumps(v) ==
    CASE v.t = "null" -> <<NULLTOK>>
      [] v.t = "num" -> <<Num(v.n)>>
      [] v.t = "str" -> <<Str(v.s)>>
      [] v.t = "list" -> <<LBR>> \o DumpItems(v.items) \o <<RBR>>
      [] v.t = "obj" -> <<LB>> \o DumpMembers(v.ks, v.m) \o <<RB>>

\* ------------------------------------------------------ _extract_json_safe
\* response_text.split(newline)
RECURSIVE SplitLines(_, _)
SplitLines(t, cur) ==
    IF t = <<>> THEN <<cur>>
    ELSE IF t[1].k = "nl" THEN <<cur>> \o SplitLines(Tail(t), <<>>)
    ELSE SplitLines(Tail(t), Append(cur, t[1]))

\* line.strip().startswith(fence marker)
IsFenceLine(line) == line # <<>> /\ line[1].k = "fence"

RECURSIVE FencedLines(_, _)
\* the lines kept by the loop of lines 477-482, in_json toggling at each fence
FencedLines(lines, in_json) ==
    IF lines = <<>> THEN <<>>
    ELSE IF IsFenceLine(lines[1]) THEN FencedLines(Tail(lines), ~in_json)
    ELSE (IF in_json THEN <<lines[1]>> ELSE <<>>)
         \o FencedLines(Tail(lines), in_json)

RECURSIVE JoinLines(_)
\* newline.join(json_lines)
JoinLines(lines) ==
    IF lines = <<>> THEN <<>>
    ELSE IF Len(lines) = 1 THEN lines[1]
    ELSE lines[1] \o <<NL>> \o JoinLines(Tail(lines))

StripFence(t) ==
    IF t # <<>> /\ t[1].k = "fence"
    THEN JoinLines(FencedLines(SplitLines(t, <<>>), FALSE))
    ELSE t

\* str.find("{"): 0-based index of the first one, -1 when there is none
Find(t, k) ==
    IF \E i \in 1..Len(t) : t[i].k = k
    THEN (CHOOSE i \in 1..Len(t) : t[i].k = k /\ \A j \in 1..(i - 1) : t[j].k # k) - 1
    ELSE -1

\* str.rfind("}")
RFind(t, k) ==
    IF \E i \in 1..Len(t) : t[i].k = k
    THEN (CHOOSE i \in 1..Len(t) : t[i].k = k /\ \A j \in (i + 1)..Len(t) : t[j].k # k) - 1
    ELSE -1

SliceObject(t) ==
    LET start_idx == Find(t, "{")
        end_idx == RFind(t, "}") + 1
    IN IF start_idx >= 0 /\ end_idx > start_idx
       THEN SubSeq(t, start_idx + 1, end_idx)
       ELSE t

InvalidJsonSentinel == DictOf(<< <<"error", JStr("Invalid JSON response from API")>> >>)

extract_json_safe(response_text) ==
    LET r == JsonLoads(SliceObject(StripFence(response_text))) IN
    IF r.ok THEN r.v ELSE InvalidJsonSentinel

\* ------------------------------------------------------- fallback payloads
Scores(names) == DictOf([i \in 1..Len(names) |-> <<names[i], JNum(14)>>])
Strs(ss) == JList([i \in 1..Len(ss) |-> JStr(ss[i])])

\* the dict serialised by _get_fallback_response (the same for every error_type)
GatewayFallbackPayload ==
    DictOf(<< <<"overall_score", JNum(70)>>,
              <<"detailed_scores",
                Scores(<<"clarity", "completeness", "accuracy", "relevance", "communication">>)>>,
              <<"strengths", Strs(<<"Answer provided shows understanding">>)>>,
              <<"weaknesses", Strs(<<"Could be more detailed">>)>>,
              <<"improvement_suggestions",
                Strs(<<"Provide specific examples", "Elaborate on key points">>)>>,
              <<"detailed_feedback",
                JStr("Unable to evaluate due to API issues. Please try again.")>>,
              <<"overall_impression", JStr("Moderate")>> >>)

\* a response object: its text, or no text at all (reading .text raises)
TextResponse(toks) == [kind |-> "text", toks |-> toks]
NoTextResponse == [kind |-> "notext", toks |-> <<>>]

get_fallback_response(error_type) == TextResponse(JsonDumps(GatewayFallbackPayload))

get_fallback_evaluation ==
    DictOf(<< <<"overall_score", JNum(70)>>,
              <<"detailed_scores",
                Scores(<<"clarity", "completeness", "accuracy", "relevance", "communication">>)>>,
              <<"strengths", Strs(<<"Shows understanding of the topic">>)>>,
              <<"weaknesses", Strs(<<"Could provide more specific details">>)>>,
              <<"improvement_suggestions",
                Strs(<<"Add concrete examples", "Structure answer more clearly">>)>>,
              <<"detailed_feedback",
                JStr("Unable to provide detailed evaluation due to API issues. The answer shows basic understanding but could benefit from more specific examples and clearer structure.")>>,
              <<"overall_impression", JStr("Satisfactory")>>,
              <<"missing_elements", Strs(<<"Specific examples", "Detailed explanations">>)>>,
              <<"follow_up_questions",
                Strs(<<"Can you provide a specific example?", "How would you handle edge cases?">>)>> >>)

get_fallback_comprehensive_evaluation ==
    DictOf(<< <<"overall_score", JNum(70)>>,
              <<"category_scores",
                Scores(<<"technical_knowledge", "problem_solving", "communication",
                         "experience", "professionalism">>)>>,
              <<"strengths", Strs(<<"Shows technical understanding">>)>>,
              <<"areas_for_improvement", Strs(<<"Provide more specific examples">>)>>,
              <<"detailed_feedback",
                JStr("Unable to provide detailed evaluation due to API issues. Consider providing more specific examples and structuring answers more clearly.")>>,
              <<"interview_readiness", JStr("Needs Preparation")>>,
              <<"recommendations",
                Strs(<<"Practice with specific examples", "Work on answer structure">>)>> >>)

get_fallback_questions ==
    DictOf(<< <<"question1", JStr("What is your experience with the technologies mentioned in your profile?")>>,
              <<"question2", JStr("Can you explain a challenging problem you've solved recently?")>>,
              <<"question3", JStr("How do you approach debugging and troubleshooting issues?")>>,
              <<"question4", JStr("Describe your experience with version control and collaboration tools.")>>,
              <<"question5", JStr("What are your preferred development methodologies and why?")>> >>)

get_fallback_legacy_evaluation ==
    DictOf(<< <<"overall_score", JNum(70)>>,
              <<"category_scores",
                Scores(<<"technical_knowledge", "problem_solving", "communication",
                         "experience", "best_practices">>)>>,
              <<"strengths",
                Strs(<<"Shows technical understanding", "Communicates clearly">>)>>,
              <<"areas_for_improvement",
                Strs(<<"Could provide more specific examples",
                       "Consider exploring advanced topics">>)>>,
              <<"detailed_feedback",
                JStr("The candidate demonstrates good foundational knowledge and communication skills. There's potential for growth with more practical experience.")>> >>)

\* the two error mappings compare_answers returns (lines 296 and 300)
CompareFailed == DictOf(<< <<"error", JStr("Failed to compare answers")>> >>)
CompareRaised == DictOf(<< <<"error", JStr("Comparison failed: <exception text>")>> >>)

\* a JSON string handed back by generate_questions
JsonText(v) == [t |-> "jsontext", toks |-> JsonDumps(v)]

\* ----------------------------------------------------- derived operations
\* mutant: the error key of the parsed mapping is not looked at
IsUsable_AnyDict(result) == IsDict(result)

\* isinstance(result, dict) and not result.get("error")
IsUsable(result) == IsDict(result) /\ ~Truthy(DictGet(result, "error"))

\* [f"question{i}" for i in range(1, 6)]
QuestionKeys == {"question1", "question2", "question3", "question4", "question5"}

\* mutant: sub-scores above 20 are clamped before the mapping is returned
ClampScores(v) ==
    IF IsDict(v) /\ HasKey(v, "detailed_scores") /\ IsDict(v.m["detailed_scores"])
    THEN LET ds == v.m["detailed_scores"] IN
         DictSet(v, "detailed_scores",
                 JObj(ds.ks, [k \in DOMAIN ds.m |->
                                 IF ds.m[k].t = "num" /\ ds.m[k].n > 20
                                 THEN JNum(20) ELSE ds.m[k]]))
    ELSE v
evaluate_single_answer_Clamped(response) ==
    IF response.kind = "notext" THEN get_fallback_evaluation
    ELSE LET result == extract_json_safe(response.toks) IN
         IF IsUsable(result) THEN ClampScores(result) ELSE get_fallback_evaluation

\* what each operation returns once the gateway has handed it `response`
\* (the body of its try block and its except branch)
evaluate_single_answer(response) ==
    IF response.kind = "notext" THEN get_fallback_evaluation
    ELSE LET result == extract_json_safe(response.toks) IN
         IF IsUsable(result) THEN result ELSE get_fallback_evaluation

evaluate_multiple_answers(response) ==
    IF response.kind = "notext" THEN get_fallback_comprehensive_evaluation
    ELSE LET result == extract_json_safe(response.toks) IN
         IF IsUsable(result) THEN result ELSE get_fallback_comprehensive_evaluation

compare_answers(response) ==
    IF response.kind = "notext" THEN CompareRaised
    ELSE LET result == extract_json_safe(response.toks) IN
         IF IsUsable(result) THEN result ELSE CompareFailed

\* mutant: any usable mapping is taken for a question set
generate_questions_Unvalidated(response) ==
    IF response.kind = "notext" THEN JsonText(get_fallback_questions)
    ELSE LET result == extract_json_safe(response.toks) IN
         IF IsUsable(result) THEN JsonText(result) ELSE JsonText(get_fallback_questions)

generate_questions(response) ==
    IF response.kind = "notext" THEN JsonText(get_fallback_questions)
    ELSE LET result == extract_json_safe(response.toks) IN
         IF IsUsable(result) /\ \E key \in QuestionKeys : HasKey(result, key)
         THEN JsonText(result)
         ELSE JsonText(get_fallback_questions)

evaluate_candidate_agent(response) ==
    IF response.kind = "notext" THEN get_fallback_legacy_evaluation
    ELSE LET result == extract_json_safe(response.toks) IN
         IF IsUsable(result) THEN result ELSE get_fallback_legacy_evaluation

OpNames == {"generate_questions", "evaluate_single_answer", "evaluate_multiple_answers",
            "compare_answers", "evaluate_candidate_agent"}

OpReturn(o, response) ==
    CASE o = "generate_questions" -> generate_questions(response)
      [] o = "evaluate_single_answer" -> evaluate_single_answer(response)
      [] o = "evaluate_multiple_answers" -> evaluate_multiple_answers(response)
      [] o = "compare_answers" -> compare_answers(response)
      [] o = "evaluate_candidate_agent" -> evaluate_candidate_agent(response)

\* ------------------------------------------------------------ the gateway
max_retries == 3
\* delay = 60, in seconds
DefaultRateLimitDelay == 60

\* an exception text: a sequence of words; Seconds(n) stands for "seconds: n"
Seconds(n) == Tok("seconds", "", n)
HasWord(msg, w) == \E i \in 1..Len(msg) : msg[i].k = "word" /\ msg[i].s = w
\* str.lower() on the words that occur in the messages
LowerWord(w) == IF w \in {"Quota", "QUOTA"} THEN "quota" ELSE w
Lower(msg) == [i \in 1..Len(msg) |-> [msg[i] EXCEPT !.s = LowerWord(@)]]

\* "429" in error_msg or "quota" in error_msg.lower()
IsRateLimit(error_msg) == HasWord(error_msg, "429") \/ HasWord(Lower(error_msg), "quota")

\* mutant: "seconds: N" is used whether or not the text has "retry_delay"
RateLimitDelay_AnySeconds(error_msg) ==
    IF \E i \in 1..Len(error_msg) : error_msg[i].k = "seconds"
    THEN error_msg[Find(error_msg, "seconds") + 1].n
    ELSE 60

\* lines 63-71: 60, or the first "seconds: N" of a text that has "retry_delay"
RateLimitDelay(error_msg) ==
    IF HasWord(error_msg, "retry_delay") /\ \E i \in 1..Len(error_msg) : error_msg[i].k = "seconds"
    THEN error_msg[Find(error_msg, "seconds") + 1].n
    ELSE DefaultRateLimitDelay

RECURSIVE Pow2(_)
Pow2(n) == IF n = 0 THEN 1 ELSE 2 * Pow2(n - 1)

\* if attempt > 0
BackoffApplies(attempt) == attempt > 0

\* mutant: attempt ** 2 in place of 2 ** attempt
BackoffDelays_Squared(attempt) ==
    {attempt * attempt * TicksPerSec + jitter : jitter \in 0..(TicksPerSec - 1)}

\* (2 ** attempt) + random.uniform(0, 1), in ticks
BackoffDelays(attempt) ==
    {Pow2(attempt) * TicksPerSec + jitter : jitter \in 0..(TicksPerSec - 1)}

\* for attempt in range(max_retries): is there an iteration after this one
HasNextAttempt(attempt) == attempt + 1 < max_retries

\* mutant: a retry does not advance the loop variable
NextAttemptIndex_Stuck(attempt) == attempt

\* the value range(max_retries) gives the loop variable after attempt
NextAttemptIndex(attempt) == attempt + 1

\* mutant: the rate-limit branch is taken on the final attempt as well
BeforeLast_Inclusive(attempt) == attempt < max_retries

\* attempt < max_retries - 1 (line 62), attempt == max_retries - 1 (line 79)
BeforeLast(attempt) == attempt < max_retries - 1
IsLast(attempt) == attempt = max_retries - 1

\* ------------------------------------------------------------ environment
preferred_models ==
    <<"models/gemini-1.5-flash", "models/gemini-1.5-pro", "models/gemini-1.5-pro-latest">>

\* what gen_ai.list_models() may name
AvailableChoices ==
    { {}, {"models/gemini-pro"},
      {"models/gemini-1.5-pro-latest", "models/gemini-1.5-pro", "models/gemini-pro"} }

\* key: GOOGLE_API_KEY is set; list_raises: gen_ai.list_models() raises
Envs ==
    {[key |-> FALSE, list_raises |-> FALSE, available |-> {}],
     [key |-> TRUE, list_raises |-> TRUE, available |-> {}]}
    \cup {[key |-> TRUE, list_raises |-> FALSE, available |-> a] : a \in AvailableChoices}

\* exception texts of model.generate_content
ServiceErrors ==
    { <<Word("503"), Word("unavailable")>>,
      <<Word("429"), Word("retry_delay"), Seconds(7)>>,
      <<Word("429"), Word("exhausted"), Seconds(7)>>,
      <<Word("Quota"), Word("retry_delay"), Seconds(0), Seconds(9)>> }

\* 'NoneType' object has no attribute 'generate_content'
NoModelError == <<Word("NoneType"), Word("generate_content")>>

LiveEvaluation ==
    DictOf(<< <<"overall_score", JNum(85)>>,
              <<"detailed_scores", DictOf(<< <<"clarity", JNum(35)>> >>)>>,
              <<"strengths", Strs(<<"Concrete">>)>> >>)
QuestionKeySeq == <<"question1", "question2", "question3", "question4", "question5">>
LiveQuestions == DictOf([i \in 1..5 |-> <<QuestionKeySeq[i], JStr("Live question")>>])

\* texts a successful model.generate_content may carry
ServiceTexts ==
    { JsonDumps(LiveEvaluation),
      <<Word("Here"), NL, FENCE, Word("json"), NL>> \o JsonDumps(LiveEvaluation) \o <<NL, FENCE>>,
      <<FENCE, Word("json"), NL>> \o JsonDumps(LiveQuestions) \o <<NL, FENCE, NL>>,
      <<LB, Key("question2"), Str("Only one"), RB>>,
      <<LB, RB>>,
      <<LB, Key("foo"), Num(1), RB>>,
      <<LB, Key("error"), Str("blocked"), RB>>,
      <<LB, Key("error"), Num(0), COMMA, Key("overall_score"), Num(1), RB>>,
      <<Word("Sorry"), Word("no"), Word("answer")>>,
      <<LB, Key("overall_score"), Num(85)>>,
      <<Num(42)>> }

ServiceResponses == {TextResponse(t) : t \in ServiceTexts} \cup {NoTextResponse}

\* ------------------------------------------------------------- arguments
QaKeys == {"question", "answer"}
RECURSIVE SeqsUpTo(_, _)
SeqsUpTo(S, n) ==
    IF n = 0 THEN {<<>>}
    ELSE LET shorter == SeqsUpTo(S, n - 1) IN
         shorter \cup {Append(q, x) : q \in shorter, x \in S}

\* data: a serialisable dict, a dict json.dumps rejects, or a non-dict
DataKinds == {"dict", "unserialisable_dict", "other"}
\* qa_pairs: for each entry the keys it has; labels: how many labels
NoArgs == [data |-> "dict", qa_pairs |-> <<>>, labels |-> 2]
ArgsOf(o) ==
    CASE o \in {"generate_questions", "evaluate_candidate_agent"} ->
           {[NoArgs EXCEPT !.data = d] : d \in DataKinds}
      [] o = "evaluate_multiple_answers" ->
           {[NoArgs EXCEPT !.qa_pairs = q] : q \in SeqsUpTo(SUBSET QaKeys, MaxArgLen)}
      [] o = "compare_answers" -> {[NoArgs EXCEPT !.labels = n] : n \in 0..MaxArgLen}
      [] OTHER -> {NoArgs}

\* ------------------------------------------------------------------ state
VARIABLES
    env,        \* the credential and the models the service lists
    agent,      \* "unbuilt", "built", or "raised" (the constructor raised)
    model,      \* self.model: a model name, or "None"
    app,        \* the program using the agent: "start"; src/app.py "running" or
                \* "stopped" (st.stop()); another client "client" or "crashed"
    chat_stage, \* st.session_state.chat_stage
    questions,  \* st.session_state.questions
    user_data,  \* st.session_state.user_data
    question_index,   \* st.session_state.question_index
    evaluation_data,  \* st.session_state.evaluation_data: question text -> answer
    api_error,  \* st.session_state.api_error, shown as the API-issue warning
    show_detailed_evaluation, \* st.session_state.show_detailed_evaluation
    run,        \* what the script run under way has still to do: "idle" (the page
                \* waits for an event), "generate", "finalize" or "legacy"
    shown,      \* the comprehensive_score the results page last rendered
    gen_calls,  \* agents.generate_questions calls since the session began
    eval_calls, \* agents.evaluate_multiple_answers calls since the session began
    service_used, \* the entry points of the service library called so far
    pc,         \* "idle", "request" (in the retry loop), "done"
    op,         \* the operation under way, "none" when idle
    caller,     \* "direct" or "app"
    args,       \* its arguments
    attempt,    \* the loop variable of _make_api_request_with_retry
    calls,      \* model.generate_content calls made by this invocation
    waits,      \* the time.sleep calls of this invocation, in order
    trace,      \* how each attempt of this invocation ended
    served,     \* the response the service returned, if it returned one
    outcome,    \* "none", "returned" or "raised"
    result,     \* the value returned
    raw_text,   \* SpecExtract: the text given to _extract_json_safe
    extracted   \* SpecExtract: what it returned

vars == <<env, agent, model, app, chat_stage, questions, user_data, question_index,
          evaluation_data, api_error, show_detailed_evaluation, run, shown, gen_calls,
          eval_calls, service_used, pc, op, caller, args, attempt,
          calls, waits, trace, served, outcome, result, raw_text, extracted>>

sessionVars == <<chat_stage, questions, user_data, question_index, evaluation_data,
                 api_error, show_detailed_evaluation>>
historyVars == <<shown, gen_calls, eval_calls>>
appVars == <<app, sessionVars, run, historyVars>>
agentVars == <<env, agent, model>>
invocationVars == <<pc, op, caller, args, attempt, calls, waits, trace, served, outcome,
                    result>>
extractVars == <<raw_text, extracted>>

NoValue == [t |-> "none"]
NoResponse == [kind |-> "none", toks |-> <<>>]

Init ==
    /\ env \in Envs
    /\ agent = "unbuilt"
    /\ model = "None"
    /\ app = "start"
    /\ chat_stage = 0
    /\ questions = EmptyObj
    /\ user_data = EmptyObj
    /\ question_index = 0
    /\ evaluation_data = EmptyObj
    /\ api_error = FALSE
    /\ show_detailed_evaluation = FALSE
    /\ run = "idle"
    /\ shown = NoValue
    /\ gen_calls = 0
    /\ eval_calls = 0
    /\ service_used = {}
    /\ pc = "idle"
    /\ op = "none"
    /\ caller = "direct"
    /\ args = NoArgs
    /\ attempt = 0
    /\ calls = 0
    /\ waits = <<>>
    /\ trace = <<>>
    /\ served = NoResponse
    /\ outcome = "none"
    /\ result = NoValue
    /\ raw_text = <<>>
    /\ extracted = NoValue

\* ------------------------------------------------------------ construction
\* next((m for m in preferred_models if m in available_models), None)
FirstPreferred(available) ==
    IF \E i \in 1..Len(preferred_models) : preferred_models[i] \in available
    THEN preferred_models[CHOOSE i \in 1..Len(preferred_models) :
             /\ preferred_models[i] \in available
             /\ \A j \in 1..(i - 1) : preferred_models[j] \notin available]
    ELSE "None"

\* the try block of __init__ ended in its except branch
ModelLoadingFails(e) == e.list_raises \/ FirstPreferred(e.available) = "None"

\* mutant: the credential is looked at only after the service was configured
\* and asked for its models
AgentInit_KeyCheckedLate ==
    /\ service_used' = service_used \cup {"configure", "list_models"}
    /\ IF ~env.key
       THEN agent' = "raised" /\ model' = "None"
       ELSE /\ agent' = "built"
            /\ model' = IF ModelLoadingFails(env) THEN "None"
                         ELSE FirstPreferred(env.available)

\* AnswerEvaluationAgent.__init__: the ValueError of line 18 comes before
\* gen_ai.configure (line 20) and gen_ai.list_models (line 24)
AgentInit ==
    IF ~env.key
    THEN agent' = "raised" /\ model' = "None" /\ service_used' = service_used
    ELSE /\ agent' = "built"
         /\ service_used' = service_used \cup {"configure", "list_models"}
         /\ model' = IF ModelLoadingFails(env) THEN "None" ELSE FirstPreferred(env.available)

\* initialize_session_state on a fresh session (lines 25-52): the defaults, then
\* agents.model.start_chat when there is a model; api_error is set if it raises
SessionDefaults ==
    /\ chat_stage' = 0
    /\ questions' = EmptyObj
    /\ user_data' = EmptyObj
    /\ question_index' = 0
    /\ evaluation_data' = EmptyObj
    /\ show_detailed_evaluation' = FALSE
    /\ IF model' = "None" THEN api_error' = FALSE ELSE api_error' \in BOOLEAN

\* src/app.py lines 10-15 and the session defaults.  Streamlit runs the script
\* again on every event and builds the agent again; the environment does not
\* change within a behaviour, so every run builds the same agent.
AppStart ==
    /\ app = "start"
    /\ AgentInit
    /\ app' = IF agent' = "raised" THEN "stopped" ELSE "running"
    /\ IF agent' = "raised" THEN UNCHANGED sessionVars ELSE SessionDefaults
    /\ UNCHANGED <<env, run, historyVars, invocationVars, extractVars>>

\* another client of the class builds the agent and calls its operations, as
\* the example of agent.py lines 505-532 does; what __init__ raises reaches it
ClientStart ==
    /\ app = "start"
    /\ AgentInit
    /\ app' = IF agent' = "raised" THEN "crashed" ELSE "client"
    /\ UNCHANGED <<env, sessionVars, run, historyVars, invocationVars, extractVars>>

\* ------------------------------------------------------------ invocations
\* the prompt is built before the try block: what raises there reaches the caller
PromptRaises(o, a) ==
    CASE o \in {"generate_questions", "evaluate_candidate_agent"} -> a.data = "unserialisable_dict"
      [] o = "evaluate_multiple_answers" ->
           \E i \in 1..Len(a.qa_pairs) : a.qa_pairs[i] # QaKeys
      [] o = "compare_answers" -> a.labels < 2
      [] OTHER -> FALSE

\* if not self.model: return the fallback (lines 342 and 405)
ChecksModelFirst(o) == o \in {"generate_questions", "evaluate_candidate_agent"}

ModelGuardReturn(o) ==
    IF o = "generate_questions" THEN JsonText(get_fallback_questions)
    ELSE get_fallback_legacy_evaluation

\* an operation from its entry to its first pass through the retry loop
Begin(o, a, c) ==
    /\ pc = "idle"
    /\ agent = "built"
    /\ op' = o /\ args' = a /\ caller' = c
    /\ attempt' = 0 /\ calls' = 0 /\ waits' = <<>> /\ trace' = <<>> /\ served' = NoResponse
    /\ IF ChecksModelFirst(o) /\ model = "None"
       THEN pc' = "done" /\ outcome' = "returned" /\ result' = ModelGuardReturn(o)
       ELSE IF PromptRaises(o, a)
       THEN pc' = "done" /\ outcome' = "raised" /\ result' = NoValue
       ELSE pc' = "request" /\ outcome' = "none" /\ result' = NoValue
    /\ UNCHANGED <<env, agent, model, service_used, raw_text, extracted>>

CallGenerateQuestions ==
    \E a \in ArgsOf("generate_questions") :
        app = "client" /\ Begin("generate_questions", a, "direct") /\ UNCHANGED appVars

CallEvaluateSingleAnswer ==
    \E a \in ArgsOf("evaluate_single_answer") :
        app = "client" /\ Begin("evaluate_single_answer", a, "direct") /\ UNCHANGED appVars

CallEvaluateMultipleAnswers ==
    \E a \in ArgsOf("evaluate_multiple_answers") :
        app = "client" /\ Begin("evaluate_multiple_answers", a, "direct") /\ UNCHANGED appVars

CallCompareAnswers ==
    \E a \in ArgsOf("compare_answers") :
        app = "client" /\ Begin("compare_answers", a, "direct") /\ UNCHANGED appVars

CallEvaluateCandidateAgent ==
    \E a \in ArgsOf("evaluate_candidate_agent") :
        app = "client" /\ Begin("evaluate_candidate_agent", a, "direct") /\ UNCHANGED appVars

\* ------------------------------------------- _make_api_request_with_retry
\* how an attempt ended: "response", or the kind of error and its text
Ended(kind, msg) == [kind |-> kind, msg |-> msg]
Wait(kind, ticks, at) == [kind |-> kind, ticks |-> ticks, attempt |-> at]

\* lines 49-52: the sleeps made before the call of this attempt
BackoffWaits ==
    IF BackoffApplies(attempt)
    THEN {<<Wait("backoff", d, attempt)>> : d \in BackoffDelays(attempt)}
    ELSE {<<>>}

\* what model.generate_content(prompt) may do
RaisedTexts == IF model = "None" THEN {NoModelError} ELSE ServiceErrors
CallsNow == IF model = "None" THEN calls ELSE calls + 1
UsedNow == IF model = "None" THEN service_used ELSE service_used \cup {"generate_content"}

\* the gateway returns `response` and the operation finishes with it
Finish(response) ==
    /\ pc' = "done"
    /\ outcome' = "returned"
    /\ result' = OpReturn(op, response)

\* the loop goes on to its next iteration, or ends and line 82 is reached
NextIteration ==
    IF HasNextAttempt(attempt)
    THEN /\ attempt' = NextAttemptIndex(attempt)
         /\ pc' = "request" /\ outcome' = "none" /\ result' = NoValue
    ELSE /\ attempt' = attempt
         /\ Finish(get_fallback_response("max_retries"))

\* the call succeeds (lines 54-55)
AttemptSucceeds ==
    /\ pc = "request"
    /\ model # "None"
    /\ \E b \in BackoffWaits, r \in ServiceResponses :
        /\ waits' = waits \o b
        /\ calls' = calls + 1
        /\ service_used' = UsedNow
        /\ trace' = Append(trace, Ended("response", <<>>))
        /\ served' = r
        /\ Finish(r)
    /\ UNCHANGED <<attempt, op, caller, args>>
    /\ UNCHANGED <<agentVars, appVars, extractVars>>

\* the call raises a rate-limit error before the last attempt (lines 61-75)
AttemptRateLimited ==
    /\ pc = "request"
    /\ \E b \in BackoffWaits, e \in RaisedTexts :
        /\ IsRateLimit(e) /\ BeforeLast(attempt)
        /\ waits' = waits \o b
                    \o <<Wait("rate_limit", RateLimitDelay(e) * TicksPerSec, attempt)>>
        /\ calls' = CallsNow
        /\ service_used' = UsedNow
        /\ trace' = Append(trace, Ended("rate_limit", e))
        /\ NextIteration
    /\ UNCHANGED <<served, op, caller, args>>
    /\ UNCHANGED <<agentVars, appVars, extractVars>>

\* the call raises a rate-limit error on the last attempt (lines 76-77)
AttemptRateLimitedLast ==
    /\ pc = "request"
    /\ \E b \in BackoffWaits, e \in RaisedTexts :
        /\ IsRateLimit(e) /\ ~BeforeLast(attempt)
        /\ waits' = waits \o b
        /\ calls' = CallsNow
        /\ service_used' = UsedNow
        /\ trace' = Append(trace, Ended("rate_limit", e))
        /\ Finish(get_fallback_response("rate_limit"))
    /\ UNCHANGED <<attempt, served, op, caller, args>>
    /\ UNCHANGED <<agentVars, appVars, extractVars>>

\* the call raises another error before the last attempt: nothing is done
AttemptFails ==
    /\ pc = "request"
    /\ \E b \in BackoffWaits, e \in RaisedTexts :
        /\ ~IsRateLimit(e) /\ ~IsLast(attempt)
        /\ waits' = waits \o b
        /\ calls' = CallsNow
        /\ service_used' = UsedNow
        /\ trace' = Append(trace, Ended(IF model = "None" THEN "no_model" ELSE "transient", e))
        /\ NextIteration
    /\ UNCHANGED <<served, op, caller, args>>
    /\ UNCHANGED <<agentVars, appVars, extractVars>>

\* the call raises another error on the last attempt (lines 79-80)
AttemptFailsLast ==
    /\ pc = "request"
    /\ \E b \in BackoffWaits, e \in RaisedTexts :
        /\ ~IsRateLimit(e) /\ IsLast(attempt)
        /\ waits' = waits \o b
        /\ calls' = CallsNow
        /\ service_used' = UsedNow
        /\ trace' = Append(trace, Ended(IF model = "None" THEN "no_model" ELSE "transient", e))
        /\ Finish(get_fallback_response("api_error"))
    /\ UNCHANGED <<attempt, served, op, caller, args>>
    /\ UNCHANGED <<agentVars, appVars, extractVars>>

\* the caller of a direct invocation has its value (or its exception)
Return ==
    /\ pc = "done"
    /\ caller = "direct"
    /\ pc' = "idle" /\ op' = "none" /\ args' = NoArgs
    /\ attempt' = 0 /\ calls' = 0 /\ waits' = <<>> /\ trace' = <<>> /\ served' = NoResponse
    /\ outcome' = "none" /\ result' = NoValue
    /\ UNCHANGED <<caller, agentVars, appVars, service_used, extractVars>>

\* ---------------------------------------------------------------- the app
\* One action is one event of the page, with the script run it triggers up to
\* the point where that run calls the agent or waits for the next event.

\* the keys of the static `questions` list (lines 102-110), in order
ProfileKeys ==
    <<"Full Name", "Email", "Phone Number", "Years of Experience", "Desired Position",
      "Current Location", "Tech Stack">>
TechStacks == {"Python, Django", "Go"}
\* what the candidate may type for a profile field
ProfileInputs(key) ==
    IF key = "Tech Stack" THEN TechStacks
    ELSE IF key = "Desired Position" THEN {"Backend Engineer"} ELSE {"text"}
\* what the candidate may type as a technical answer
Answers == {"My answer"}

\* the app's own question set (lines 161-171), built from the profile
SecondaryQuestions(ud) ==
    LET tech_stack == IF HasKey(ud, "Tech Stack") THEN ud.m["Tech Stack"].s
                      ELSE "general technologies"
        position == IF HasKey(ud, "Desired Position") THEN ud.m["Desired Position"].s
                    ELSE "the position"
    IN DictOf(<<
        <<"question1", JStr("What is your experience with " \o tech_stack \o "?")>>,
        <<"question2", JStr("Can you describe a challenging project you've worked on using "
                            \o tech_stack \o "?")>>,
        <<"question3", JStr("How do you stay updated with the latest trends in "
                            \o tech_stack \o "?")>>,
        <<"question4", JStr("What makes you a good fit for the " \o position \o " role?")>>,
        <<"question5", JStr("What are your career goals for the next 2-3 years?")>> >>)

\* lines 149-171: what is stored for the value generate_questions returned
StoredQuestions(generated, ud) ==
    IF generated.t = "jsontext"
    THEN IF JsonLoads(generated.toks).ok THEN JsonLoads(generated.toks).v
         ELSE SecondaryQuestions(ud)
    ELSE IF IsDict(generated) THEN generated
    ELSE SecondaryQuestions(ud)

\* mutant: questions are generated whenever the technical stage is rendered
MainNeeds_AlwaysGenerates(stage, qs, qi, detailed) ==
    IF detailed \/ stage < Len(ProfileKeys) THEN "idle" ELSE "generate"

\* the main logic of a script run (lines 394-408, 113-116, 139-144, 174-178,
\* 231-232): the agent call it makes, "idle" when it only renders
MainNeeds(stage, qs, qi, detailed) ==
    IF detailed \/ stage < Len(ProfileKeys) THEN "idle"
    ELSE IF ~Truthy(qs) THEN "generate"
    ELSE IF qi < Len(qs.ks) THEN "idle"
    ELSE "finalize"

\* the invocation the app made is over
ResetInvocation ==
    /\ pc' = "idle" /\ op' = "none" /\ args' = NoArgs /\ caller' = "direct"
    /\ attempt' = 0 /\ calls' = 0 /\ waits' = <<>> /\ trace' = <<>> /\ served' = NoResponse
    /\ outcome' = "none" /\ result' = NoValue

\* the page waits for an event
AppIdle == app = "running" /\ run = "idle" /\ pc = "idle"

\* the results page may be computed once more (bound of the model)
MayRun(needs) == needs = "finalize" => eval_calls < MaxEvaluations

\* ask_questions: one profile answer is submitted (lines 114-138)
AskQuestions ==
    /\ AppIdle
    /\ ~show_detailed_evaluation
    /\ chat_stage < Len(ProfileKeys)
    /\ \E user_input \in ProfileInputs(ProfileKeys[chat_stage + 1]) :
          user_data' = DictSet(user_data, ProfileKeys[chat_stage + 1], JStr(user_input))
    /\ chat_stage' = chat_stage + 1
    /\ run' = MainNeeds(chat_stage', questions, question_index, FALSE)
    /\ shown' = NoValue
    /\ UNCHANGED <<app, questions, question_index, evaluation_data, api_error,
                   show_detailed_evaluation, gen_calls, eval_calls>>
    /\ UNCHANGED <<agentVars, service_used, invocationVars, extractVars>>

\* handle_dynamic_questions: agents.generate_questions(user_data) (lines 144-147)
AppGenerateQuestions ==
    /\ app = "running"
    /\ run = "generate"
    /\ Begin("generate_questions", NoArgs, "app")
    /\ gen_calls' = gen_calls + 1
    /\ UNCHANGED <<app, sessionVars, run, shown, eval_calls>>

\* lines 149-178: the question set is stored and the first question rendered
AppStoreQuestions ==
    /\ pc = "done"
    /\ caller = "app"
    /\ op = "generate_questions"
    /\ outcome = "returned"
    /\ questions' = StoredQuestions(result, user_data)
    /\ run' = IF question_index < Len(questions'.ks) THEN "idle" ELSE "finalize"
    /\ ResetInvocation
    /\ UNCHANGED <<app, chat_stage, user_data, question_index, evaluation_data, api_error,
                   show_detailed_evaluation, historyVars>>
    /\ UNCHANGED <<agentVars, service_used, extractVars>>

\* handle_dynamic_questions: one technical answer is submitted (lines 174-230);
\* the answer is filed under the text of the question
TechAnswer ==
    /\ AppIdle
    /\ ~show_detailed_evaluation
    /\ MainNeeds(chat_stage, questions, question_index, FALSE) = "idle"
    /\ chat_stage >= Len(ProfileKeys)
    /\ LET question == questions.m[questions.ks[question_index + 1]] IN
       /\ question.t = "str"
       /\ \E user_input \in Answers :
             evaluation_data' = DictSet(evaluation_data, question.s, JStr(user_input))
    /\ question_index' = question_index + 1
    /\ run' = MainNeeds(chat_stage, questions, question_index', FALSE)
    /\ UNCHANGED <<app, chat_stage, questions, user_data, api_error,
                   show_detailed_evaluation, historyVars>>
    /\ UNCHANGED <<agentVars, service_used, invocationVars, extractVars>>

\* the list finalize_evaluation builds from evaluation_data (lines 237-239)
QaPairs == [i \in 1..Len(evaluation_data.ks) |-> QaKeys]

\* finalize_evaluation: agents.evaluate_multiple_answers(qa_pairs, context)
AppFinalize ==
    /\ app = "running"
    /\ run = "finalize"
    /\ Begin("evaluate_multiple_answers", [NoArgs EXCEPT !.qa_pairs = QaPairs], "app")
    /\ eval_calls' = eval_calls + 1
    /\ shown' = NoValue
    /\ UNCHANGED <<app, sessionVars, run, gen_calls>>

\* if not comprehensive_score or comprehensive_score.get("error") (line 246)
NeedsLegacy(comprehensive_score) ==
    ~Truthy(comprehensive_score) \/ Truthy(DictGet(comprehensive_score, "error"))

\* finalize_evaluation: agents.evaluate_candidate_agent(evaluation_input)
AppLegacyEvaluate ==
    /\ app = "running"
    /\ run = "legacy"
    /\ Begin("evaluate_candidate_agent", NoArgs, "app")
    /\ UNCHANGED <<app, sessionVars, run, historyVars>>

\* finalize_evaluation has a comprehensive_score: it goes on to the legacy
\* evaluation (lines 246-251) or renders the results (lines 253-332)
AppShowEvaluation ==
    /\ pc = "done"
    /\ caller = "app"
    /\ op \in {"evaluate_multiple_answers", "evaluate_candidate_agent"}
    /\ outcome = "returned"
    /\ IF op = "evaluate_multiple_answers" /\ NeedsLegacy(result)
       THEN run' = "legacy" /\ shown' = shown
       ELSE run' = "idle" /\ shown' = result
    /\ ResetInvocation
    /\ UNCHANGED <<app, sessionVars, gen_calls, eval_calls>>
    /\ UNCHANGED <<agentVars, service_used, extractVars>>

\* the Test API Connection button (lines 77-85), then the main logic
TestApiConnection ==
    /\ AppIdle
    /\ MayRun(MainNeeds(chat_stage, questions, question_index, show_detailed_evaluation))
    /\ IF model = "None"
       THEN api_error' = TRUE /\ service_used' = service_used
       ELSE /\ api_error' \in BOOLEAN
            /\ service_used' = service_used \cup {"generate_content"}
    /\ run' = MainNeeds(chat_stage, questions, question_index, show_detailed_evaluation)
    /\ shown' = IF run' = "idle" THEN shown ELSE NoValue
    /\ UNCHANGED <<app, chat_stage, questions, user_data, question_index, evaluation_data,
                   show_detailed_evaluation, gen_calls, eval_calls>>
    /\ UNCHANGED <<agentVars, invocationVars, extractVars>>

\* the Detailed Analysis button (lines 88-91): the detailed page is rendered
DetailedAnalysis ==
    /\ AppIdle
    /\ Truthy(evaluation_data)
    /\ ~show_detailed_evaluation
    /\ show_detailed_evaluation' = TRUE
    /\ run' = MainNeeds(chat_stage, questions, question_index, TRUE)
    /\ shown' = NoValue
    /\ UNCHANGED <<app, chat_stage, questions, user_data, question_index, evaluation_data,
                   api_error, gen_calls, eval_calls>>
    /\ UNCHANGED <<agentVars, service_used, invocationVars, extractVars>>

\* the Back to Results button (lines 390-392), then the main logic
BackToResults ==
    /\ AppIdle
    /\ show_detailed_evaluation
    /\ MayRun(MainNeeds(chat_stage, questions, question_index, FALSE))
    /\ show_detailed_evaluation' = FALSE
    /\ run' = MainNeeds(chat_stage, questions, question_index, FALSE)
    /\ UNCHANGED <<app, chat_stage, questions, user_data, question_index, evaluation_data,
                   api_error, historyVars>>
    /\ UNCHANGED <<agentVars, service_used, invocationVars, extractVars>>

\* the Restart Process button: reset_and_rerun (lines 58-60, 73-74); the next
\* run starts from the session defaults
Restart ==
    /\ AppIdle
    /\ UNCHANGED model
    /\ SessionDefaults
    /\ run' = "idle"
    /\ shown' = NoValue /\ gen_calls' = 0 /\ eval_calls' = 0
    /\ UNCHANGED <<app, env, agent, service_used, invocationVars, extractVars>>

Next ==
    \/ AppStart
    \/ ClientStart
    \/ CallGenerateQuestions
    \/ CallEvaluateSingleAnswer
    \/ CallEvaluateMultipleAnswers
    \/ CallCompareAnswers
    \/ CallEvaluateCandidateAgent
    \/ AttemptSucceeds
    \/ AttemptRateLimited
    \/ AttemptRateLimitedLast
    \/ AttemptFails
    \/ AttemptFailsLast
    \/ Return
    \/ AskQuestions
    \/ AppGenerateQuestions
    \/ AppStoreQuestions
    \/ TechAnswer
    \/ AppFinalize
    \/ AppLegacyEvaluate
    \/ AppShowEvaluation
    \/ TestApiConnection
    \/ DetailedAnalysis
    \/ BackToResults
    \/ Restart

Spec == Init /\ [][Next]_vars

\* ------------------------------------------- the extractor on its own
TextAlphabet ==
    {LB, RB, LBR, RBR, COMMA, NL, FENCE, NULLTOK, Key("a"), Num(1), Str("x"), Word("json")}

\* mappings whose json.dumps text is the canonical string J
CanonicalMappings ==
    { EmptyObj,
      DictOf(<< <<"a", JNum(1)>> >>),
      DictOf(<< <<"a", DictOf(<< <<"b", JList(<<JNum(1), JNull>>)>> >>)>>,
                <<"c", JStr("x")>> >>) }

\* one line of prose, with or without braces in it
Proses ==
    { <<>>, <<Word("Here"), Word("you"), Word("go")>>,
      <<Word("Use"), LB, Word("x"), RB>>, <<Word("Thanks"), RB>> }

\* J in a fenced code block
Fenced(J) == <<FENCE, Word("json"), NL>> \o J \o <<NL, FENCE>>

\* the fenced block with a line of prose before and after it (none when empty)
Wrapped(J, pre, post) ==
    (IF pre = <<>> THEN <<>> ELSE pre \o <<NL>>)
    \o Fenced(J)
    \o (IF post = <<>> THEN <<>> ELSE <<NL>> \o post)

WrappedTexts ==
    {JsonDumps(m) : m \in CanonicalMappings}
    \cup {Wrapped(JsonDumps(m), pre, post) :
             m \in CanonicalMappings, pre \in Proses, post \in Proses}

InitExtract ==
    /\ raw_text \in SeqsUpTo(TextAlphabet, MaxTextLen) \cup WrappedTexts
    /\ extracted = NoValue
    /\ env = [key |-> FALSE, list_raises |-> FALSE, available |-> {}]
    /\ agent = "unbuilt" /\ model = "None" /\ app = "start"
    /\ chat_stage = 0 /\ questions = EmptyObj /\ user_data = EmptyObj
    /\ question_index = 0 /\ evaluation_data = EmptyObj /\ api_error = FALSE
    /\ show_detailed_evaluation = FALSE /\ run = "idle" /\ shown = NoValue
    /\ gen_calls = 0 /\ eval_calls = 0 /\ service_used = {}
    /\ pc = "idle" /\ op = "none" /\ caller = "direct" /\ args = NoArgs
    /\ attempt = 0 /\ calls = 0 /\ waits = <<>> /\ trace = <<>>
    /\ served = NoResponse /\ outcome = "none" /\ result = NoValue

\* self._extract_json_safe(raw_text)
ExtractJsonSafe ==
    /\ extracted = NoValue
    /\ extracted' = extract_json_safe(raw_text)
    /\ UNCHANGED <<raw_text, agentVars, appVars, service_used, invocationVars>>

NextExtract == ExtractJsonSafe

SpecExtract == InitExtract /\ [][NextExtract]_vars

\* ================================================================= claims
DerivedOps == {"generate_questions", "evaluate_single_answer",
               "evaluate_multiple_answers", "compare_answers"}

\* the fallback payloads an operation has of its own
OwnFallbacks(o) ==
    CASE o = "generate_questions" -> {JsonText(get_fallback_questions)}
      [] o = "evaluate_single_answer" -> {get_fallback_evaluation}
      [] o = "evaluate_multiple_answers" -> {get_fallback_comprehensive_evaluation}
      [] o = "compare_answers" -> {CompareFailed, CompareRaised}
      [] o = "evaluate_candidate_agent" -> {get_fallback_legacy_evaluation}
      [] OTHER -> {}

Finished == pc = "done"
EveryAttemptFailed ==
    /\ Finished
    /\ trace # <<>>
    /\ \A i \in 1..Len(trace) : trace[i].kind \in {"transient", "rate_limit"}
AllOfKind(kind) == Finished /\ trace # <<>> /\ \A i \in 1..Len(trace) : trace[i].kind = kind
\* the service answered with a text no JSON value can be read from
MalformedServed ==
    /\ served.kind = "text"
    /\ ~JsonLoads(SliceObject(StripFence(served.toks))).ok

\* C1: each of the four derived operations, invoked under a transient error, a
\* rate-limit error, a malformed response or a failed model configuration,
\* returns one of its own fallback payloads (it does not raise, it returns a value).
C1_FailureYieldsOwnFallback ==
    (/\ Finished
     /\ op \in DerivedOps
     /\ ~PromptRaises(op, args)
     /\ \/ AllOfKind("transient")
        \/ AllOfKind("rate_limit")
        \/ MalformedServed
        \/ model = "None")
    => (outcome = "returned" /\ result \in OwnFallbacks(op))

\* C2: when every attempt of the service call failed, the value returned is the
\* fallback of the operation attempted: the five questions, the single-answer
\* default, the comprehensive default, or the comparison default.
C2_ExhaustionFallbackChosenByOperation ==
    (EveryAttemptFailed /\ op \in DerivedOps)
    => CASE op = "generate_questions" ->
              /\ result.t = "jsontext"
              /\ Range(JsonLoads(result.toks).v.ks) = QuestionKeys
         [] op = "evaluate_single_answer" ->
              /\ IsDict(result)
              /\ {"detailed_scores", "missing_elements", "follow_up_questions"}
                    \subseteq Range(result.ks)
         [] op = "evaluate_multiple_answers" ->
              /\ IsDict(result)
              /\ {"category_scores", "interview_readiness"} \subseteq Range(result.ks)
         [] op = "compare_answers" -> result \in {CompareFailed, CompareRaised}

\* C3: one invocation of the gateway calls generate_content at most max_retries
\* (3) times and makes at most 3 attempts, whatever mix of transient and
\* rate-limit errors occurs; after the third failed attempt it has returned.
C3_AtMostMaxRetriesCalls ==
    /\ calls <= 3
    /\ Len(trace) <= 3
    /\ (Len(trace) = 3 => Finished)

C3_Witness_MixedErrorsExhaust ==
    /\ Finished /\ calls = 3
    /\ \E i, j \in 1..Len(trace) : trace[i].kind = "transient" /\ trace[j].kind = "rate_limit"

\* the backoff wait made before attempt index i, if one was made
BackoffBefore(i) == {j \in 1..Len(waits) : waits[j].kind = "backoff" /\ waits[j].attempt = i}
RateWaitAfter(i) == {j \in 1..Len(waits) : waits[j].kind = "rate_limit" /\ waits[j].attempt = i}
InBackoffInterval(ticks, i) ==
    Pow2(i) * TicksPerSec <= ticks /\ ticks < (Pow2(i) + 1) * TicksPerSec

\* C4 as stated: after a rate-limit failure that is not the final attempt the
\* rate-limit delay is waited instead of the backoff delay, so no backoff wait
\* precedes the attempt that follows it.
C4_RateLimitDelayReplacesBackoff ==
    \A i \in 1..Len(trace) :
        (trace[i].kind = "rate_limit" /\ i < max_retries) => BackoffBefore(i) = {}

\* the delay the rate-limit branch is to wait for this error text, in seconds
HintedDelay(msg) ==
    IF HasWord(msg, "retry_delay") /\ \E k \in 1..Len(msg) : msg[k].k = "seconds"
    THEN msg[CHOOSE k \in 1..Len(msg) :
                 msg[k].k = "seconds" /\ \A l \in 1..(k - 1) : msg[l].k # "seconds"].n
    ELSE 60

\* C4 amended: after a rate-limit failure of attempt i that is not the final
\* attempt, the gateway waits 60 s, or the first "seconds: N" value of an error
\* text that contains "retry_delay", and the attempt that follows is still
\* preceded by its own backoff wait of [2^(i+1), 2^(i+1)+1) s, made after it.
C4_RateLimitDelayThenBackoff ==
    \A i \in 1..Len(trace) :
        (trace[i].kind = "rate_limit" /\ i < max_retries) =>
            /\ Cardinality(RateWaitAfter(i - 1)) = 1
            /\ \A j \in RateWaitAfter(i - 1) :
                 /\ waits[j].ticks = HintedDelay(trace[i].msg) * TicksPerSec
                 /\ (Len(trace) > i =>
                       /\ j < Len(waits)
                       /\ waits[j + 1].kind = "backoff"
                       /\ waits[j + 1].attempt = i
                       /\ InBackoffInterval(waits[j + 1].ticks, i))

C4_Witness_HintThenBackoff ==
    /\ Len(trace) >= 2
    /\ trace[1].kind = "rate_limit"
    /\ HasWord(trace[1].msg, "retry_delay")
    /\ Len(waits) >= 2
    /\ waits[1].kind = "rate_limit" /\ waits[1].ticks = 7 * TicksPerSec
    /\ waits[2].kind = "backoff"

\* C5: an unparseable response is not retried: the operation has returned its
\* own fallback, no attempt follows the response, and when the response came on
\* the first attempt exactly one call and no wait was made.
C5_MalformedNotRetried ==
    MalformedServed =>
        /\ Finished
        /\ outcome = "returned"
        /\ result \in OwnFallbacks(op)
        /\ trace[Len(trace)].kind = "response"
        /\ calls = Len(trace)
        /\ (Len(trace) = 1 => (calls = 1 /\ waits = <<>>))

C5_Witness_MalformedFirstAttempt ==
    /\ MalformedServed /\ Finished
    /\ op = "compare_answers"
    /\ Len(trace) = 1 /\ calls = 1

\* C6: no public operation lets an exception reach its caller, whatever its
\* arguments and whatever the service does.
C6_NoExceptionPropagates == outcome # "raised"

\* the Evaluation Result shape: an overall score, sub-scores, the three lists,
\* the detailed feedback and the overall impression
ValidEvaluationShape(v) ==
    /\ IsDict(v)
    /\ {"overall_score", "strengths", "detailed_feedback"} \subseteq Range(v.ks)
    /\ Range(v.ks) \cap {"detailed_scores", "category_scores"} # {}

\* C7: an evaluation operation returns either a result that validates against
\* the Evaluation Result shape or its own fallback; an empty object or one with
\* unrelated keys is replaced by the fallback.
C7_LiveEvaluationValidates ==
    (/\ Finished /\ outcome = "returned"
     /\ op \in {"evaluate_single_answer", "evaluate_multiple_answers"})
    => (ValidEvaluationShape(result) \/ result \in OwnFallbacks(op))

\* C8: when no model of the preference list is available, construction has
\* raised, the program using the agent has stopped, and no profile question or
\* question generation is reached.
C8_NoPreferredModelStopsApp ==
    (/\ agent # "unbuilt"
     /\ env.key /\ ~env.list_raises
     /\ \A i \in 1..Len(preferred_models) : preferred_models[i] \notin env.available)
    => /\ agent = "raised"
       /\ app \in {"stopped", "crashed"}
       /\ chat_stage = 0 /\ questions = EmptyObj /\ pc = "idle"

\* C9: no wait precedes attempt 0; the backoff wait before attempt i >= 1 lies
\* in [2^i, 2^i + 1) seconds, and every attempt after the first has one.
C9_BackoffInterval ==
    /\ (trace = <<>> /\ attempt = 0 => waits = <<>>)
    /\ BackoffBefore(0) = {}
    /\ \A j \in 1..Len(waits) :
          waits[j].kind = "backoff" =>
             /\ waits[j].attempt >= 1
             /\ InBackoffInterval(waits[j].ticks, waits[j].attempt)
    /\ \A i \in 1..Len(trace) : i >= 2 => Cardinality(BackoffBefore(i - 1)) = 1

C9_Witness_TwoBackoffs ==
    /\ Finished
    /\ \E j, k \in 1..Len(waits) :
          /\ waits[j].kind = "backoff" /\ waits[j].attempt = 1
          /\ waits[k].kind = "backoff" /\ waits[k].attempt = 2
          /\ waits[k].ticks > 4 * TicksPerSec

NoBrace(t) == \A i \in 1..Len(t) : t[i].k \notin {"{", "}"}
IsErrorSentinel(v) == IsDict(v) /\ Range(v.ks) = {"error"}

\* C10: for a raw text with no brace at all the extractor returns an error
\* sentinel, so that what it returns is always a mapping, never a number, a
\* string, a list or null.
C10_BraceFreeTextYieldsSentinel ==
    (extracted # NoValue /\ NoBrace(raw_text)) => IsErrorSentinel(extracted)

\* C11: for every canonical JSON object string J the extractor returns the
\* mapping of J for J alone, for J in a fenced code block, and for that block
\* with any prose before and/or after it.
C11_WrappingPreservesMapping ==
    \A m \in CanonicalMappings :
        /\ (raw_text = JsonDumps(m) /\ extracted # NoValue) => extracted = m
        /\ \A pre \in Proses, post \in Proses :
              (raw_text = Wrapped(JsonDumps(m), pre, post) /\ extracted # NoValue)
                  => extracted = m

\* C12: every question set generate_questions returns, whatever the service
\* returned, maps exactly the five keys question1..question5 to question strings.
C12_ExactlyFiveNumberedQuestions ==
    (Finished /\ op = "generate_questions" /\ outcome = "returned") =>
        LET q == JsonLoads(result.toks) IN
        /\ q.ok /\ IsDict(q.v)
        /\ Range(q.v.ks) = QuestionKeys
        /\ \A k \in Range(q.v.ks) : q.v.m[k].t = "str"

\* total of the sleeps of the invocation, in ticks
RECURSIVE SumTicks(_)
SumTicks(ws) == IF ws = <<>> THEN 0 ELSE Head(ws).ticks + SumTicks(Tail(ws))
RateLimitWaits == {j \in 1..Len(waits) : waits[j].kind = "rate_limit"}
\* every rate-limit delay of the invocation is the default one
DefaultDelaysOnly ==
    \A j \in RateLimitWaits : waits[j].ticks = DefaultRateLimitDelay * TicksPerSec
\* the backoff delays before attempts 1..n, each at its upper end, in seconds
RECURSIVE BackoffCeiling(_)
BackoffCeiling(n) == IF n = 0 THEN 0 ELSE Pow2(n) + 1 + BackoffCeiling(n - 1)
WorstCaseWaitSeconds ==
    (max_retries - 1) * DefaultRateLimitDelay + BackoffCeiling(max_retries - 1)

\* C15 as stated: with the default rate-limit delay the total time one gateway
\* invocation waits in the rate-limit path is bounded at roughly 60-70 seconds.
C15_TotalWaitAbout70Seconds ==
    (RateLimitWaits # {} /\ DefaultDelaysOnly) => SumTicks(waits) <= 70 * TicksPerSec

\* C15 amended: with the default rate-limit delay the total wait of one
\* invocation stays below 2 * 60 + (2 + 1) + (4 + 1) = 128 seconds, and is at
\* least 2 * 60 + 2 = 122 seconds once two attempts were rate-limited.
C15_TotalWaitBelow128Seconds ==
    DefaultDelaysOnly =>
        /\ SumTicks(waits) < WorstCaseWaitSeconds * TicksPerSec
        /\ Cardinality(RateLimitWaits) <= max_retries - 1
        /\ Cardinality(RateLimitWaits) = 2 =>
              SumTicks(waits) >= (2 * DefaultRateLimitDelay + Pow2(1)) * TicksPerSec

C15_Witness_TwoDefaultDelays ==
    /\ Finished /\ DefaultDelaysOnly
    /\ Cardinality(RateLimitWaits) = 2
    /\ SumTicks(waits) > 126 * TicksPerSec

\* C17: when the service returns a JSON object for a single question/answer
\* evaluation (one without a truthy "error" entry, which marks a failure),
\* evaluate_single_answer returns that mapping as it is: overall_score and every
\* sub-score unchanged, nothing recomputed, summed up or clamped.
C17_EvaluationPassedThrough ==
    (/\ Finished /\ op = "evaluate_single_answer"
     /\ served.kind = "text"
     /\ JsonLoads(served.toks).ok
     /\ IsDict(JsonLoads(served.toks).v)
     /\ ~Truthy(DictGet(JsonLoads(served.toks).v, "error")))
        => /\ outcome = "returned"
           /\ result = JsonLoads(served.toks).v

\* a sub-score of 35 (out of 20) came back as 35
C17_Witness_OutOfRangeSubScore ==
    /\ Finished /\ op = "evaluate_single_answer"
    /\ served = TextResponse(JsonDumps(LiveEvaluation))
    /\ result.m["detailed_scores"].m["clarity"] = JNum(35)
    /\ result.m["overall_score"] = JNum(85)

\* C19: a failure of the final attempt, rate-limit or not, makes the gateway
\* return a fallback response at once (no wait after it, no further call); a
\* failure of an earlier attempt that is not a rate-limit one returns nothing,
\* causes no rate-limit wait and leads to the next attempt.
C19_FinalFailureReturnsAtOnce ==
    /\ Len(trace) <= max_retries /\ calls <= max_retries
    /\ (Len(trace) = max_retries /\ trace[max_retries].kind # "response") =>
          /\ pc = "done" /\ outcome = "returned"
          /\ result = OpReturn(op, get_fallback_response("api_error"))
          /\ RateWaitAfter(max_retries - 1) = {}
          /\ \A j \in 1..Len(waits) : waits[j].attempt <= max_retries - 1
          /\ Cardinality({j \in 1..Len(waits) : waits[j].attempt = max_retries - 1}) <= 1
    /\ \A i \in 1..Len(trace) :
          (i < max_retries /\ trace[i].kind \in {"transient", "no_model"}) =>
              /\ RateWaitAfter(i - 1) = {}
              /\ \/ Len(trace) > i
                 \/ pc = "request" /\ attempt = i /\ outcome = "none" /\ result = NoValue

C19_Witness_FinalRateLimitAfterTransient ==
    /\ Finished /\ Len(trace) = max_retries
    /\ trace[1].kind = "transient"
    /\ trace[max_retries].kind = "rate_limit"
    /\ calls = max_retries

\* C13: with the service failing on every attempt, generate_questions returns,
\* for any candidate profile, exactly five non-empty questions in the static
\* fallback wording; the app stores that set and not its own set built from the
\* tech stack.
C13_ExhaustionYieldsStaticFallbackQuestions ==
    (EveryAttemptFailed /\ op = "generate_questions") =>
        /\ outcome = "returned"
        /\ result = JsonText(get_fallback_questions)
        /\ LET q == JsonLoads(result.toks).v IN
           /\ Len(q.ks) = 5 /\ Range(q.ks) = QuestionKeys
           /\ \A k \in QuestionKeys : q.m[k].t = "str" /\ q.m[k].s # ""
           /\ \A tech \in TechStacks :
                 q # SecondaryQuestions(DictSet(user_data, "Tech Stack", JStr(tech)))
        /\ caller = "app" =>
              /\ StoredQuestions(result, user_data) = get_fallback_questions
              /\ StoredQuestions(result, user_data) # SecondaryQuestions(user_data)

C13_Witness_AppGenerationExhausted ==
    /\ EveryAttemptFailed /\ op = "generate_questions" /\ caller = "app"
    /\ Len(trace) = max_retries
    /\ user_data.m["Tech Stack"] = JStr("Go")

\* the payloads an evaluation falls back to
FallbackEvaluations ==
    {get_fallback_comprehensive_evaluation, get_fallback_legacy_evaluation,
     GatewayFallbackPayload}

\* C14: whenever the question set or the evaluation shown to the candidate is a
\* fallback and not a live result of the service, api_error is set.
C14_FallbackShownSetsWarning ==
    (app = "running" /\ run = "idle" /\ model # "None"
     /\ (questions = get_fallback_questions \/ shown \in FallbackEvaluations))
        => api_error

\* C16: without GOOGLE_API_KEY the constructor raises before any interaction
\* with the service, and the app stops without entering the interview flow.
C16_MissingKeyRaisesBeforeService ==
    (~env.key /\ app # "start") =>
        /\ agent = "raised" /\ model = "None"
        /\ service_used = {}
        /\ app \in {"stopped", "crashed"}
        /\ chat_stage = 0 /\ user_data = EmptyObj /\ questions = EmptyObj
        /\ run = "idle" /\ pc = "idle" /\ calls = 0 /\ gen_calls = 0 /\ eval_calls = 0

C16_Witness_AppStoppedWithoutKey ==
    ~env.key /\ agent = "raised" /\ app = "stopped" /\ service_used = {}

\* C18: within one session (from the initial state or Restart to the next
\* Restart) generate_questions is invoked at most once and only after all seven
\* profile fields were submitted, and once questions is set no step other than
\* Restart changes it.
C18_QuestionsGeneratedOnce ==
    /\ [](/\ gen_calls <= 1
          /\ (gen_calls = 1 \/ (op = "generate_questions" /\ caller = "app")) =>
                /\ chat_stage = Len(ProfileKeys)
                /\ \A i \in 1..Len(ProfileKeys) : HasKey(user_data, ProfileKeys[i])
          /\ Truthy(questions) => gen_calls = 1)
    /\ [][Truthy(questions) =>
             \/ questions' = questions
             \/ questions' = EmptyObj /\ chat_stage' = 0 /\ gen_calls' = 0]_vars

C18_Witness_RerunsAfterGeneration ==
    /\ app = "running" /\ Truthy(questions) /\ gen_calls = 1
    /\ question_index = Len(questions.ks)
    /\ eval_calls = 2

\* C20: once all technical questions are answered, evaluate_multiple_answers is
\* requested at most once in the session; later reruns of the page (Test API
\* Connection, Detailed Analysis and back) do not request it again.
C20_ComprehensiveEvaluationOnce == eval_calls <= 1

\* C21: the list of question/answer pairs finalize_evaluation passes to
\* evaluate_multiple_answers has one pair per generated question answered: its
\* length equals question_index and the number of generated questions, also
\* when two questions have the same text.
C21_OnePairPerAnsweredQuestion ==
    (caller = "app" /\ op = "evaluate_multiple_answers") =>
        /\ Len(args.qa_pairs) = question_index
        /\ Len(args.qa_pairs) = Len(questions.ks)

\* C22: an agent built without a model (self.model is None) returns the
\* fallback of every public operation without an attempt on the service and
\* without any backoff wait.
C22_NoModelReturnsFallbackAtOnce ==
    (agent = "built" /\ model = "None" /\ op \in OpNames) =>
        /\ calls = 0
        /\ waits = <<>>
        /\ (Finished /\ outcome = "returned") => result \in OwnFallbacks(op)
====
